---- MODULE Spec2Model ----
(***************************************************************************)
(* Model of euvote's api.py: the Participant vote bookkeeping              *)
(* (register_vote_by / register_vote_for), the Game aggregate              *)
(* (load_game / save_game / _get_participant) and the three HTTP handlers  *)
(* (GET /game, POST /game, POST /reset) over the JSON files on disk.       *)
(***************************************************************************)
EXTENDS Integers, Sequences, FiniteSets, TLC

\* ------------------------------------------------------------------ bounds
\* Number of deck values a participant starts with (a prefix of the deck).
DeckSize == 3
\* Longest available_votes list drawn for the arbitrary-lists specification.
MaxLen == 2
\* Number of local edits the clients make to the documents they hold.
MaxEdits == 2

\* --------------------------------------------------------------- constants
\* The ranking deck, default of Participant.available_votes.
DefaultDeck == <<12, 10, 8, 7, 6, 5, 4, 3, 2, 1>>
\* A vote value that is in no deck: 11.
NotInDeck == DefaultDeck[1] - 1
\* Optional[str] = None
Null == "null"

Names == {"A", "B"}

Min(a, b) == IF a < b THEN a ELSE b
Deck == SubSeq(DefaultDeck, 1, Min(DeckSize, Len(DefaultDeck)))
DeckVals == {Deck[i] : i \in 1..Len(Deck)}
VoteVals == DeckVals \cup {NotInDeck}

\* ----------------------------------------------------------------- helpers
\* Python: x in list
In(x, s) == \E i \in 1..Len(s) : s[i] = x

\* Number of occurrences of x in list s.
Occ(x, s) == Cardinality({i \in 1..Len(s) : s[i] = x})

\* A list.remove(x) that drops every occurrence instead of the first one.
RemoveAll(s, x) == SelectSeq(s, LAMBDA e : e # x)

\* Python: list.remove(x), the first occurrence only (x is in s).
Remove(s, x) ==
    LET i == CHOOSE k \in 1..Len(s) : s[k] = x /\ \A j \in 1..(k - 1) : s[j] # x
    IN  SubSeq(s, 1, i - 1) \o SubSeq(s, i + 1, Len(s))

\* Python: d[k] = v on a dict
Put(d, k, v) == [x \in (DOMAIN d) \cup {k} |-> IF x = k THEN v ELSE d[x]]

EmptyDict == [x \in {} |-> 0]

RECURSIVE SumSet(_, _)
SumSet(f, S) ==
    IF S = {} THEN 0
    ELSE LET x == CHOOSE y \in S : TRUE IN f[x] + SumSet(f, S \ {x})

\* Sum of the values of a dict.
SumDict(d) == SumSet(d, DOMAIN d)

\* ------------------------------------------------------------- Participant
Fields == {"name", "avatar", "points", "j_75_played", "j_100_played",
           "available_votes", "voted_for", "can_vote", "is_checked"}

\* Field defaults of the Participant model.
Defaults ==
    [avatar |-> Null, points |-> 0, j_75_played |-> FALSE,
     j_100_played |-> FALSE, available_votes |-> Deck,
     voted_for |-> EmptyDict, can_vote |-> TRUE, is_checked |-> FALSE]

\* Participant(**val): declared fields only, defaults for the absent ones.
\* No validator recomputes can_vote, and undeclared keys are dropped.
Participant(val) ==
    [k \in Fields |-> IF k \in DOMAIN val THEN val[k] ELSE Defaults[k]]

VARIABLES
    participants,   \* vote model: name -> Participant object
    voted_by,       \* vote model: name -> entries written to self.voted_by
    last,           \* vote model: the last call made and how it ended
    casts,          \* vote model: <<caster, target>> of calls that passed the check
    recast,         \* vote model: casters that called twice for one target
    fs,             \* file name -> <<>> (no file) or <<the JSON document>>
    held,           \* client -> <<>> or <<the Game document it holds>>
    base,           \* client -> <<>> or <<the document its last GET returned>>
    resp,           \* the last HTTP response
    reqs,           \* the requests served since the last POST /reset, it included
    posted,         \* the last two POST /game served since a file was read
    edits,          \* number of local edits the clients have made
    rt,             \* <<the outcome of the load, save, load just made>> or <<>>
    lookup          \* <<the outcome of the _get_participant just made>> or <<>>

voteVars == <<participants, voted_by, last, casts, recast>>
apiVars == <<fs, held, base, resp, reqs, posted, edits, rt, lookup>>
vars == <<participants, voted_by, last, casts, recast,
          fs, held, base, resp, reqs, posted, edits, rt, lookup>>

NoCall == [op |-> "none", caster |-> "A", target |-> "A", vote |-> 0,
           exc |-> "none", calls |-> 0]

\* register_vote_for: reads self.voted_by, which is no field of Participant;
\* the attribute lookup raises before anything is written.
register_vote_for(ps, vb, self, by, vote) ==
    IF "voted_by" \in Fields
    THEN [ps |-> [ps EXCEPT ![self].points = @ + vote],
          vb |-> [vb EXCEPT ![self] = Put(@, by, vote)], exc |-> "none"]
    ELSE [ps |-> ps, vb |-> vb, exc |-> "AttributeError"]

\* A register_vote_by that credits the target's points itself instead of
\* making the nested call.
register_vote_by_points(ps, self, vote_for, vote) ==
    IF ~In(vote, ps[self].available_votes)
    THEN [ps |-> ps, exc |-> "IllegalVote", calls |-> 1]
    ELSE [ps |-> [ps EXCEPT ![self].available_votes = Remove(@, vote),
                            ![self].voted_for = Put(@, vote_for, vote),
                            ![vote_for].points = @ + vote],
          exc |-> "none", calls |-> 1]

\* register_vote_by: the membership check, the removal, the voted_for entry,
\* then the nested call on the target with the roles swapped; can_vote is
\* assigned only when the nested call returns.
RECURSIVE register_vote_by(_, _, _, _)
register_vote_by(ps, self, vote_for, vote) ==
    IF ~In(vote, ps[self].available_votes)
    THEN [ps |-> ps, exc |-> "IllegalVote", calls |-> 1]
    ELSE LET p1 == [ps EXCEPT ![self].available_votes = Remove(@, vote),
                              ![self].voted_for = Put(@, vote_for, vote)]
             r  == register_vote_by(p1, vote_for, self, vote)
         IN  IF r.exc # "none"
             THEN [r EXCEPT !.calls = @ + 1]
             ELSE [ps |-> [r.ps EXCEPT ![self].can_vote =
                               (r.ps[self].available_votes # <<>>)],
                   exc |-> "none", calls |-> r.calls + 1]

\* A call a.register_vote_by(b, v) from outside.
RegisterVoteBy(a, b, v) ==
    LET r == register_vote_by(participants, a, b, v)
        passed == In(v, participants[a].available_votes)
    IN  /\ participants' = r.ps
        /\ last' = [op |-> "register_vote_by", caster |-> a, target |-> b,
                    vote |-> v, exc |-> r.exc, calls |-> r.calls]
        /\ casts' = IF passed THEN casts \cup {<<a, b>>} ELSE casts
        /\ recast' = IF passed /\ <<a, b>> \in casts
                     THEN recast \cup {a} ELSE recast
        /\ UNCHANGED voted_by
        /\ UNCHANGED apiVars

\* A call b.register_vote_for(a, v) from outside.
RegisterVoteFor(b, a, v) ==
    LET r == register_vote_for(participants, voted_by, b, a, v)
    IN  /\ participants' = r.ps
        /\ voted_by' = r.vb
        /\ last' = [op |-> "register_vote_for", caster |-> a, target |-> b,
                    vote |-> v, exc |-> r.exc, calls |-> 1]
        /\ UNCHANGED <<casts, recast>>
        /\ UNCHANGED apiVars

\* Participants constructed with their defaults.
DefaultParticipants == [n \in Names |-> Participant([name |-> n])]
NoVotedBy == [n \in Names |-> EmptyDict]

\* -------------------------------------------------------------------- Game
Clients == {"c1", "c2"}
GameFile == "game.json"
TemplateFile == "default.game.json"
Files == {GameFile, TemplateFile}

None == <<>>
Some(x) == <<x>>

\* str(Path(p)): a leading "./" is dropped.
PathStr(p) ==
    CASE p = "./game.json" -> "game.json"
      [] p = "./default.game.json" -> "default.game.json"
      [] OTHER -> p

GameFields == {"participants", "save_file", "audio_name", "player_name",
               "voter", "vote_buff"}

\* Field defaults of the Game model.
GameDefaults ==
    [save_file |-> Null, audio_name |-> Null, player_name |-> Null,
     voter |-> None, vote_buff |-> None]

\* Game(**data), as the request body of POST /game is parsed: every declared
\* field is taken from the document, participants and voter as Participant.
Game(data) ==
    [k \in GameFields |->
        IF k \notin DOMAIN data THEN GameDefaults[k]
        ELSE IF k \in {"participants", "voter"}
             THEN [i \in DOMAIN data[k] |-> Participant(data[k][i])]
             ELSE data[k]]

\* self.dict() written by json.dump and read back by json.load: every field
\* of the Game and of each Participant, under its own key.
Dict(g) ==
    [k \in GameFields |->
        IF k \in {"participants", "voter"}
        THEN [i \in DOMAIN g[k] |-> [f \in Fields |-> g[k][i][f]]]
        ELSE g[k]]

\* Game.load_game: only data["participants"] is read from the document, and
\* save_file is the path the document was loaded from.
load_game(files, load_file) ==
    LET save_file == PathStr(load_file)
        data == files[save_file][1]
    IN  Game([participants |->
                  [i \in DOMAIN data.participants |->
                      Participant(data.participants[i])],
              save_file |-> save_file])

\* A Game.save_game that keeps a file that already exists.
Game_save_game_keep(files, self) ==
    IF files[PathStr(self.save_file)] # None THEN files
    ELSE [files EXCEPT ![PathStr(self.save_file)] = Some(Dict(self))]

\* Game.save_game: the document replaces the content of self.save_file.
Game_save_game(files, self) ==
    [files EXCEPT ![PathStr(self.save_file)] = Some(Dict(self))]

\* Attributes of a Python list that take part here; participants is a List.
ListAttrs == {"append", "remove", "index", "count"}

\* Game._get_participant: self.participants.get(name), then the None test.
get_participant(self, name) ==
    IF "get" \notin ListAttrs
    THEN [exc |-> "AttributeError", result |-> None]
    ELSE LET hit == {i \in DOMAIN self.participants :
                        self.participants[i].name = name}
         IN  IF hit = {}
             THEN [exc |-> "ParticipantNotFound", result |-> None]
             ELSE [exc |-> "none",
                   result |-> Some(self.participants[CHOOSE i \in hit : TRUE])]

Last2(s, x) == IF Len(s) < 2 THEN Append(s, x) ELSE <<s[2], x>>

\* The request log: it restarts at a POST /reset and is dropped once a request
\* other than the GET that follows the reset is served.
Served(s, x) ==
    IF x = "reset" THEN <<"reset">>
    ELSE IF s = <<"reset">> /\ x = "get" THEN <<"reset", "get">>
    ELSE <<>>

\* GET /game
get_game(c) ==
    /\ IF fs[GameFile] = None
       THEN /\ resp' = [status |-> 500, body |-> None]
            /\ UNCHANGED <<held, base>>
       ELSE LET game == load_game(fs, "./game.json")
            IN  /\ resp' = [status |-> 200, body |-> Some(Dict(game))]
                /\ held' = [held EXCEPT ![c] = Some(Dict(game))]
                /\ base' = [base EXCEPT ![c] = Some(Dict(game))]
    /\ reqs' = Served(reqs, "get")
    /\ posted' = <<>>
    /\ rt' = None
    /\ lookup' = None
    /\ UNCHANGED <<fs, edits>>

\* POST /game with the document the client holds as its body.
save_game(c) ==
    /\ held[c] # None
    /\ LET game == Game(held[c][1])
       IN  IF game.save_file = Null
           THEN /\ resp' = [status |-> 500, body |-> None]
                /\ posted' = Last2(posted, [client |-> c, doc |-> Dict(game),
                                            status |-> 500])
                /\ UNCHANGED fs
           ELSE /\ fs' = Game_save_game(fs, game)
                /\ resp' = [status |-> 200, body |-> None]
                /\ posted' = Last2(posted, [client |-> c, doc |-> Dict(game),
                                            status |-> 200])
    /\ reqs' = Served(reqs, "post")
    /\ rt' = None
    /\ lookup' = None
    /\ UNCHANGED <<held, base, edits>>

\* A POST /reset that saves the template where it was loaded from.
reset_game_in_place(c) ==
    /\ IF fs[TemplateFile] = None
       THEN /\ resp' = [status |-> 500, body |-> None]
            /\ UNCHANGED fs
       ELSE LET game == load_game(fs, "./default.game.json")
            IN  /\ fs' = Game_save_game(fs, game)
                /\ resp' = [status |-> 200, body |-> None]
    /\ reqs' = Served(reqs, "reset")
    /\ posted' = <<>>
    /\ rt' = None
    /\ lookup' = None
    /\ UNCHANGED <<held, base, edits>>

\* POST /reset
reset_game(c) ==
    /\ IF fs[TemplateFile] = None
       THEN /\ resp' = [status |-> 500, body |-> None]
            /\ UNCHANGED fs
       ELSE LET loaded == load_game(fs, "./default.game.json")
                game == [loaded EXCEPT !.save_file = "game.json"]
            IN  /\ fs' = Game_save_game(fs, game)
                /\ resp' = [status |-> 200, body |-> None]
    /\ reqs' = Served(reqs, "reset")
    /\ posted' = <<>>
    /\ rt' = None
    /\ lookup' = None
    /\ UNCHANGED <<held, base, edits>>

\* The changes a client makes to the document before it POSTs it; the body of
\* POST /game is taken as it comes.
EditPoints == {5}
EditAudio == {"song"}
EditSaveFile == {Null, "default.game.json"}

ClientEdit(c) ==
    /\ held[c] # None
    /\ edits < MaxEdits
    /\ \E d \in
           {[held[c][1] EXCEPT !.participants[1].points = x] : x \in EditPoints}
           \cup {[held[c][1] EXCEPT !.audio_name = x] : x \in EditAudio}
           \cup {[held[c][1] EXCEPT !.save_file = x] : x \in EditSaveFile} :
           /\ d # held[c][1]
           /\ held' = [held EXCEPT ![c] = Some(d)]
    /\ edits' = edits + 1
    /\ rt' = None
    /\ lookup' = None
    /\ UNCHANGED <<fs, base, resp, reqs, posted>>

\* load_game(path), save_game() on the result, load_game(path) again.
PathStrings == {"./game.json", "./default.game.json"}

RoundTrip(path) ==
    /\ fs[PathStr(path)] # None
    /\ LET first == load_game(fs, path)
           saved == Game_save_game(fs, first)
           again == load_game(saved, path)
       IN  /\ fs' = saved
           /\ rt' = Some([path |-> path, stored |-> fs[PathStr(path)][1],
                          again |-> Dict(again)])
    /\ posted' = <<>>
    /\ lookup' = None
    /\ UNCHANGED <<held, base, resp, reqs, edits>>

\* _get_participant(name) on the Game loaded from the save file.
LookupNames == {"A", "Z"}

GetParticipant(name) ==
    /\ fs[GameFile] # None
    /\ LET game == load_game(fs, "./game.json")
           r == get_participant(game, name)
       IN  lookup' = Some([name |-> name,
                           names |-> {game.participants[i].name :
                                          i \in DOMAIN game.participants},
                           exc |-> r.exc, result |-> r.result])
    /\ rt' = None
    /\ UNCHANGED <<fs, held, base, resp, reqs, posted, edits>>

\* The documents on disk before the server starts: the default template, and
\* either no save file or one left by an earlier game.
TemplateDocs ==
    {[participants |-> <<[name |-> "A", avatar |-> "a.png",
                          voted_by |-> EmptyDict],
                         [name |-> "B", is_checked |-> TRUE]>>,
      audio_name |-> "intro"]}

EarlierGame ==
    Dict(Game([participants |->
                   <<[name |-> "A", points |-> 12,
                      available_votes |-> <<Deck[1]>>],
                     [name |-> "B", points |-> 7]>>,
               save_file |-> "game.json"]))

NoFiles == [f \in Files |-> None]
NoDocs == [c \in Clients |-> None]
NoResponse == [status |-> 0, body |-> None]

InitApi ==
    /\ \E t \in TemplateDocs, g \in {None, Some(EarlierGame)} :
           fs = [f \in Files |-> IF f = TemplateFile THEN Some(t) ELSE g]
    /\ held = NoDocs
    /\ base = NoDocs
    /\ resp = NoResponse
    /\ reqs = <<>>
    /\ posted = <<>>
    /\ edits = 0
    /\ rt = None
    /\ lookup = None
    /\ participants = DefaultParticipants
    /\ voted_by = NoVotedBy
    /\ last = NoCall
    /\ casts = {}
    /\ recast = {}

\* The HTTP interface: the three handlers, and the clients' edits.
NextApi ==
    \/ \E c \in Clients : get_game(c) /\ UNCHANGED voteVars
    \/ \E c \in Clients : save_game(c) /\ UNCHANGED voteVars
    \/ \E c \in Clients : reset_game(c) /\ UNCHANGED voteVars
    \/ \E c \in Clients : ClientEdit(c) /\ UNCHANGED voteVars

SpecApi == InitApi /\ [][NextApi]_vars

\* The Game methods called on the files the HTTP interface leaves behind.
NextGame ==
    \/ \E c \in Clients : get_game(c) /\ UNCHANGED voteVars
    \/ \E c \in Clients : save_game(c) /\ UNCHANGED voteVars
    \/ \E c \in Clients : reset_game(c) /\ UNCHANGED voteVars
    \/ \E c \in Clients : ClientEdit(c) /\ UNCHANGED voteVars
    \/ \E path \in PathStrings : RoundTrip(path) /\ UNCHANGED voteVars
    \/ \E name \in LookupNames : GetParticipant(name) /\ UNCHANGED voteVars

SpecGame == InitApi /\ [][NextGame]_vars

\* Participants loaded from a document that gives each an available_votes
\* list of its own, repeated values included.
ListVals == {DefaultDeck[1], DefaultDeck[2]}
BoundedSeq(S, n) == UNION {[1..k -> S] : k \in 0..n}

InitLists ==
    /\ \E l \in [Names -> BoundedSeq(ListVals, MaxLen)] :
           participants =
               [n \in Names |-> Participant([name |-> n, available_votes |-> l[n]])]
    /\ voted_by = NoVotedBy
    /\ last = NoCall
    /\ casts = {}
    /\ recast = {}
    /\ fs = NoFiles
    /\ held = NoDocs
    /\ base = NoDocs
    /\ resp = NoResponse
    /\ reqs = <<>>
    /\ posted = <<>>
    /\ edits = 0
    /\ rt = None
    /\ lookup = None

\* Participants constructed with their defaults; no request is served.
Init ==
    /\ participants = DefaultParticipants
    /\ voted_by = NoVotedBy
    /\ last = NoCall
    /\ casts = {}
    /\ recast = {}
    /\ fs = NoFiles
    /\ held = NoDocs
    /\ base = NoDocs
    /\ resp = NoResponse
    /\ reqs = <<>>
    /\ posted = <<>>
    /\ edits = 0
    /\ rt = None
    /\ lookup = None

Next ==
    \/ \E a \in Names, b \in Names, v \in VoteVals : RegisterVoteBy(a, b, v)
    \/ \E a \in Names, b \in Names, v \in {Deck[1]} : RegisterVoteFor(b, a, v)

Spec == Init /\ [][Next]_vars

\* The calls made on the drawn lists: the values the lists are drawn from, and
\* one that is in none of them.
NextLists ==
    \/ \E a \in Names, b \in Names, v \in ListVals \cup {NotInDeck} :
           RegisterVoteBy(a, b, v)
    \/ \E a \in Names, b \in Names, v \in {Deck[1]} : RegisterVoteFor(b, a, v)

SpecLists == InitLists /\ [][NextLists]_vars

\* ------------------------------------------------------------------ claims
Avail(p) == participants[p].available_votes

\* C1: a call a.register_vote_by(b, v) with v in a.available_votes completes
\* without error, removes exactly one occurrence of v from a.available_votes,
\* sets a.voted_for[b] = v and b.voted_by[a] = v, adds v to b.points, and
\* changes nothing else of a or b but a.can_vote.
C1_CastVoteEffect ==
    [][\A a \in Names, b \in Names, v \in VoteVals :
          (RegisterVoteBy(a, b, v) /\ In(v, Avail(a))) =>
              /\ last'.exc = "none"
              /\ participants'[a].available_votes = Remove(Avail(a), v)
              /\ participants'[a].voted_for = Put(participants[a].voted_for, b, v)
              /\ voted_by'[b] = Put(voted_by[b], a, v)
              /\ participants'[b].points = participants[b].points + v
              /\ a # b => participants'[b].available_votes = Avail(b)
              /\ a # b => participants'[b].voted_for = participants[b].voted_for
              /\ a # b => participants'[a].points = participants[a].points
              /\ a # b => voted_by'[a] = voted_by[a]]_vars

\* C2: a call of register_vote_by that signals IllegalVote leaves every field
\* of every participant as it was before the call.
C2_AllOrNothing ==
    [][\A a \in Names, b \in Names, v \in VoteVals :
          (RegisterVoteBy(a, b, v) /\ last'.exc = "IllegalVote") =>
              (participants' = participants /\ voted_by' = voted_by)]_vars

SumPoints == SumSet([n \in Names |-> participants[n].points], Names)
SumVotedBy == SumSet([n \in Names |-> SumDict(voted_by[n])], Names)

\* C3: in every state reached from participants constructed with their
\* defaults, the sum of the points of all participants equals the sum of all
\* values stored in all voted_by maps.
C3_PointsMatchVotedBy == SumPoints = SumVotedBy

\* C3 witness: a register_vote_by call passed its check and left its mark.
C3_Witness ==
    /\ last.op = "register_vote_by"
    /\ last.calls > 1
    /\ last.target \in DOMAIN participants[last.caster].voted_for
    /\ Len(Avail(last.caster)) < Len(Deck)

\* C4: for a participant that started with the full deck and never called
\* register_vote_by twice for one target, the length of available_votes plus
\* the number of voted_for entries equals the size of the deck.
C4_DeckConserved ==
    \A p \in Names :
        p \notin recast =>
            Len(Avail(p)) + Cardinality(DOMAIN participants[p].voted_for) = Len(Deck)

\* C5: can_vote is false exactly when available_votes is empty.
C5_CanVoteIffNonEmpty ==
    \A p \in Names : (participants[p].can_vote = FALSE) <=> (Avail(p) = <<>>)

\* C6: loading a stored Game document, saving the result and loading again
\* yields a document equal to the stored one in every field Game declares.
C6_RoundTripLossless ==
    rt # None =>
        \A k \in GameFields : rt[1].again[k] = Dict(Game(rt[1].stored))[k]

\* C7: a GET /game served right after a POST /reset returns the participant
\* list of the default template, with save_file naming the save file.
C7_ResetThenGet ==
    reqs = <<"reset", "get">> =>
        /\ resp.status = 200
        /\ resp.body # None
        /\ resp.body[1].participants =
               [i \in DOMAIN fs[TemplateFile][1].participants |->
                   Participant(fs[TemplateFile][1].participants[i])]
        /\ resp.body[1].save_file = GameFile

\* C7 witness: the GET after the reset answers with the template although a
\* client had read other participants from the save file before.
C7_Witness ==
    /\ reqs = <<"reset", "get">>
    /\ resp.status = 200
    /\ \E c \in Clients :
           /\ base[c] # None
           /\ base[c][1].participants[1].points > 0
           /\ resp.body[1].participants[1].points = 0

\* C8: _get_participant returns the participant of the given name when the
\* game has one, and signals ParticipantNotFound, and nothing else, when it
\* has none.
C8_LookupByName ==
    lookup # None =>
        IF lookup[1].name \in lookup[1].names
        THEN /\ lookup[1].exc = "none"
             /\ lookup[1].result # None
             /\ lookup[1].result[1].name = lookup[1].name
        ELSE lookup[1].exc = "ParticipantNotFound"

\* C9: a POST /game is rejected only when its document names no save file,
\* and a POST that is served replaces the file its document names by that
\* document, whatever the file held: of two clients that read the same
\* document, the one that posts last wins.
C9_LastSaveWins ==
    /\ \A i \in DOMAIN posted :
           (posted[i].status = 200) <=> (posted[i].doc.save_file # Null)
    /\ LET served == {i \in DOMAIN posted : posted[i].status = 200}
       IN  served # {} =>
               LET latest == posted[CHOOSE i \in served : \A j \in served : j <= i]
               IN  fs[PathStr(latest.doc.save_file)] = Some(latest.doc)

\* C9 witness: two clients read the same document, one changed the points and
\* the other the audio name, both have posted, and the save file holds the
\* second document, without the first client's points.
C9_Witness ==
    /\ Len(posted) = 2
    /\ posted[1].status = 200
    /\ posted[2].status = 200
    /\ posted[1].client # posted[2].client
    /\ base[posted[1].client] # None
    /\ base[posted[1].client] = base[posted[2].client]
    /\ LET read == base[posted[1].client][1]
           first == posted[1].doc
           second == posted[2].doc
       IN  /\ first.participants[1].points # read.participants[1].points
           /\ second.participants[1].points = read.participants[1].points
           /\ second.audio_name # read.audio_name
           /\ first.audio_name = read.audio_name
           /\ fs[GameFile] = Some(second)
           /\ fs[GameFile][1].participants[1].points
                  # first.participants[1].points

\* C10: a call of register_vote_by terminates; every nested call that passes
\* the membership check removes one occurrence of the value from the list of
\* the participant it runs on, so the number of passing calls is at most the
\* number of occurrences of the value in the two lists, and the chain ends at
\* a call whose participant no longer holds the value.
C10_ChainBounded ==
    [][\A a \in Names, b \in Names, v \in ListVals \cup {NotInDeck} :
          RegisterVoteBy(a, b, v) =>
              LET passes == last'.calls - 1
                  present == IF a = b THEN Occ(v, Avail(a))
                          ELSE Occ(v, Avail(a)) + Occ(v, Avail(b))
                  gone == IF a = b
                          THEN Len(Avail(a)) - Len(participants'[a].available_votes)
                          ELSE (Len(Avail(a)) - Len(participants'[a].available_votes))
                               + (Len(Avail(b)) - Len(participants'[b].available_votes))
                  after == IF a = b THEN Occ(v, participants'[a].available_votes)
                           ELSE Occ(v, participants'[a].available_votes)
                                + Occ(v, participants'[b].available_votes)
                  ender == IF passes % 2 = 0 THEN a ELSE b
              IN  /\ passes >= 0
                  /\ passes <= present
                  /\ gone = passes
                  /\ after = present - passes
                  /\ ~In(v, participants'[ender].available_votes)]_vars

\* C10 witness: a chain of four calls or more, which needs a repeated value.
C10_Witness ==
    /\ last.op = "register_vote_by"
    /\ last.calls >= 4
    /\ last.caster # last.target

====
